---- MODULE Spec2Model ----
(***************************************************************************)
(* Model of src/transpilers/swc.ts: the swc transpiler adapter of ts-node. *)
(*                                                                         *)
(* create(createOptions) loads an swc instance, derives two swc option     *)
(* objects from the TypeScript compiler options (probing the instance for  *)
(* the newest target it accepts and validating both objects with a trial   *)
(* compile) and returns a transpiler whose transpile() picks one of the    *)
(* two objects by file extension.                                          *)
(*                                                                         *)
(* The swc instance is external: every answer it gives (does a module      *)
(* resolve, does a trial compile of a level succeed, does it accept an     *)
(* option object, does it compile a file) is chosen nondeterministically   *)
(* at the call, and recorded.  The probe loop asks about each level at     *)
(* most once, so answering at the call is the same as fixing the set of    *)
(* accepted levels beforehand.                                             *)
(*                                                                         *)
(* Strings that the code inspects (file names) are sequences of one-       *)
(* character strings; texts that the code builds by concatenation (error   *)
(* messages) are sequences of the concatenated pieces.                     *)
(***************************************************************************)
EXTENDS Integers, Sequences, FiniteSets, TLC

VARIABLES
    pc,                 \* position of the caller inside create / createSwcOptions
    swc,                \* createOptions.swc
    compilerOptions,    \* createOptions.service.config.options
    nodeModuleEmitKind, \* createOptions.nodeModuleEmitKind
    swcDepName,         \* let swcDepName
    resolveLog,         \* calls made to transpilerConfigLocalResolveHelper, in order
    swcTargetIndex,     \* let swcTargetIndex
    probeLog,           \* level-only trial compiles made by the probe loop, in order
    nonTsxOptions,      \* const nonTsxOptions
    tsxOptions,         \* const tsxOptions
    validateLog,        \* trial compiles made by createVariant, in order
    transformCalls,     \* number of calls of swcInstance.transformSync so far
    transpileCalls,     \* number of calls of transpile so far
    lastCall,           \* the last transpile: its fileName, and the input and
                        \* options transformSync received from it
    lastBackend,        \* what transformSync did in the last transpile
    lastResult,         \* what the last transpile gave its caller
    error               \* message of the Error create() threw, <<>> if none

vars == <<pc, swc, compilerOptions, nodeModuleEmitKind, swcDepName, resolveLog,
          swcTargetIndex, probeLog, nonTsxOptions, tsxOptions, validateLog,
          transformCalls, transpileCalls, lastCall, lastBackend, lastResult, error>>

----------------------------------------------------------------------------
(* Bounds of the model.                                                     *)

\* transpile may be called any number of times; the model stops counting here.
MaxTranspileCalls == 2

----------------------------------------------------------------------------
(* Values.                                                                  *)

\* A numeric compiler option (target, module, jsx) that is not set.
undefinedNum == -1

\* An optional boolean compiler option: "true", "false" or "undefined".
TriState == {"true", "false", "undefined"}

\* A variable that holds no object yet.
NoObject == [absent |-> TRUE]

swcTargets ==
    <<"es3", "es5", "es2015", "es2016", "es2017", "es2018",
      "es2019", "es2020", "es2021", "es2022", "esnext">>

\* The keys of targetMapping (ts.ScriptTarget values that have an entry).
MappedScriptTargets == {0, 1, 2, 3, 4, 5, 6, 7, 8, 9, 99}

\* targetMapping.get(target): the entry, or "undefined" when there is none.
targetMapping(target) ==
    CASE target = 0  -> "es3"
      [] target = 1  -> "es5"
      [] target = 2  -> "es2015"
      [] target = 3  -> "es2016"
      [] target = 4  -> "es2017"
      [] target = 5  -> "es2018"
      [] target = 6  -> "es2019"
      [] target = 7  -> "es2020"
      [] target = 8  -> "es2021"
      [] target = 9  -> "es2022"
      [] target = 99 -> "esnext"
      [] OTHER       -> "undefined"

ModuleKind ==
    [None |-> 0, CommonJS |-> 1, AMD |-> 2, UMD |-> 3, System |-> 4,
     ES2015 |-> 5, ES2020 |-> 6, ESNext |-> 99, Node16 |-> 100, NodeNext |-> 199]

JsxEmit == [ReactJSX |-> 4, ReactJSXDev |-> 5]

\* Array.prototype.indexOf, 0-based, -1 when absent.
indexOf(arr, x) ==
    IF \E i \in 1..Len(arr) : arr[i] = x
    THEN (CHOOSE i \in 1..Len(arr) : arr[i] = x /\ \A j \in 1..(i - 1) : arr[j] # x) - 1
    ELSE -1

\* arr[i] for a 0-based index; "undefined" outside the array.
at(arr, i) == IF i \in 0..(Len(arr) - 1) THEN arr[i + 1] ELSE "undefined"

\* String.prototype.endsWith on sequences of characters.
endsWith(s, suffix) ==
    /\ Len(s) >= Len(suffix)
    /\ SubSeq(s, Len(s) - Len(suffix) + 1, Len(s)) = suffix

DotTsx == <<".", "t", "s", "x">>
DotJsx == <<".", "j", "s", "x">>

\* a ?? b on strings
nullish(a, b) == IF a = "undefined" THEN b ELSE a

\* !x for an optional boolean
not(x) == x # "true"

----------------------------------------------------------------------------
(* createSwcOptions: the derived values.                                    *)

\* let swcTarget = targetMapping.get(target!) ?? 'es3'
initialSwcTarget(target) == nullish(targetMapping(target), "es3")

\* const keepClassNames = target! >= 3
keepClassNames(target) == target # undefinedNum /\ target >= 3

isNodeModuleKind(module) ==
    module = ModuleKind.Node16 \/ module = ModuleKind.NodeNext

\* moduleType with a Node16/NodeNext kind going to commonjs unless nodeesm is asked for.
moduleTypeDefaultingToCommonjs(module, emitKind) ==
    IF module = ModuleKind.CommonJS THEN "commonjs"
    ELSE IF module = ModuleKind.AMD THEN "amd"
    ELSE IF module = ModuleKind.UMD THEN "umd"
    ELSE IF isNodeModuleKind(module) /\ emitKind # "nodeesm" THEN "commonjs"
    ELSE "es6"

moduleType(module, emitKind) ==
    IF module = ModuleKind.CommonJS THEN "commonjs"
    ELSE IF module = ModuleKind.AMD THEN "amd"
    ELSE IF module = ModuleKind.UMD THEN "umd"
    ELSE IF isNodeModuleKind(module) /\ emitKind = "nodecjs" THEN "commonjs"
    ELSE IF isNodeModuleKind(module) /\ emitKind = "nodeesm" THEN "es6"
    ELSE "es6"

\* strictMode with the test of alwaysStrict against true left out of the
\* second alternative.
strictModeIgnoringAlwaysStrict(alwaysStrict, strict, noImplicitUseStrict) ==
    IF /\ (alwaysStrict = "false" \/ strict # "true")
       /\ noImplicitUseStrict = "true"
    THEN FALSE
    ELSE TRUE

strictMode(alwaysStrict, strict, noImplicitUseStrict) ==
    IF /\ (alwaysStrict = "false" \/ (alwaysStrict # "true" /\ strict # "true"))
       /\ noImplicitUseStrict = "true"
    THEN FALSE
    ELSE TRUE

\* ignoreDynamic: nodeModuleEmitKind === 'nodecjs'
ignoreDynamic(emitKind) == emitKind = "nodecjs"

jsxRuntime(jsx) ==
    IF jsx = JsxEmit.ReactJSX \/ jsx = JsxEmit.ReactJSXDev THEN "automatic" ELSE "undefined"

jsxDevelopment(jsx) == IF jsx = JsxEmit.ReactJSXDev THEN "true" ELSE "undefined"

\* The object literal of createVariant(isTsx).
swcOptionsOf(isTsx, co, emitKind, swcTarget) ==
    [sourceMaps |-> co.sourceMap,
     module |->
        [noInterop     |-> not(co.esModuleInterop),
         type          |-> moduleType(co.module, emitKind),
         strictMode    |-> strictMode(co.alwaysStrict, co.strict, co.noImplicitUseStrict),
         ignoreDynamic |-> ignoreDynamic(emitKind)],
     swcrc |-> FALSE,
     jsc |->
        [externalHelpers |-> co.importHelpers,
         parser |->
            [syntax           |-> "typescript",
             tsx              |-> isTsx,
             decorators       |-> co.experimentalDecorators,
             dynamicImport    |-> TRUE,
             importAssertions |-> TRUE],
         target |-> swcTarget,
         transform |->
            [decoratorMetadata |-> co.emitDecoratorMetadata,
             legacyDecorator   |-> TRUE,
             react |->
                [throwIfNamespace |-> FALSE,
                 development      |-> jsxDevelopment(co.jsx),
                 useBuiltins      |-> FALSE,
                 pragma           |-> co.jsxFactory,
                 pragmaFrag       |-> co.jsxFragmentFactory,
                 runtime          |-> jsxRuntime(co.jsx)]],
         keepClassNames |-> keepClassNames(co.target),
         experimental |-> [keepImportAssertions |-> TRUE]]]

\* validationError with the fixed label in place of the resolved name.
validationErrorWithFixedLabel(depName, e) ==
    <<"swc",
      " threw an error when attempting to validate swc compiler options.\n",
      "You may be using an old version of swc which does not support the options used by ts-node.\n",
      "Try upgrading to the latest version of swc.\n",
      "Error message from swc:\n",
      e.message>>

\* The message of the Error createVariant throws when the trial compile throws e.
validationError(depName, e) ==
    <<depName,
      " threw an error when attempting to validate swc compiler options.\n",
      "You may be using an old version of swc which does not support the options used by ts-node.\n",
      "Try upgrading to the latest version of swc.\n",
      "Error message from swc:\n",
      e.message>>

\* unresolvableError naming the primary dependency only.
unresolvableErrorNamingCoreOnly ==
    <<"swc compiler requires ", "@swc/core",
      " to be installed as a dependency.  See https://typestrong.org/ts-node/docs/transpilers">>

\* The message of the Error create throws when neither dependency resolves.
unresolvableError ==
    <<"swc compiler requires either ", "@swc/core", " or ", "@swc/wasm",
      " to be installed as a dependency.  See https://typestrong.org/ts-node/docs/transpilers">>

\* { ...swcOptions, filename: fileName }
withFilename(swcOptions, fileName) == [filename |-> fileName] @@ swcOptions

\* selectOptions that knows .tsx only.
selectOptionsTsxOnly(fileName, plain, markup) ==
    IF endsWith(fileName, DotTsx) THEN markup ELSE plain

\* The option object transpile hands to transformSync for fileName.
selectOptions(fileName, plain, markup) ==
    IF endsWith(fileName, DotTsx) \/ endsWith(fileName, DotJsx) THEN markup ELSE plain

\* transpileResult that swallows the error and returns empty output.
transpileResultSwallowingError(r) ==
    IF r.kind = "ok"
    THEN [kind |-> "return", outputText |-> r.code, sourceMapText |-> r.map]
    ELSE [kind |-> "return", outputText |-> "", sourceMapText |-> "undefined"]

\* What transpile gives its caller when transformSync did r.
transpileResult(r) ==
    IF r.kind = "ok"
    THEN [kind |-> "return", outputText |-> r.code, sourceMapText |-> r.map]
    ELSE [kind |-> "throw", error |-> r.error]

----------------------------------------------------------------------------
(* Inputs and answers of the environment.                                   *)

\* ts.ScriptTarget values a caller may pass: those with an entry in
\* targetMapping, one without (10, ES2023 in later compilers), and none.
ScriptTargets == MappedScriptTargets \cup {10, undefinedNum}

ModuleKinds ==
    {ModuleKind.None, ModuleKind.CommonJS, ModuleKind.AMD, ModuleKind.UMD,
     ModuleKind.System, ModuleKind.ES2015, ModuleKind.ES2020, ModuleKind.ESNext,
     ModuleKind.Node16, ModuleKind.NodeNext, undefinedNum}

NodeModuleEmitKinds == {"nodecjs", "nodeesm", "undefined"}

\* The compiler options no derivation below branches on, unset and set.
OtherOptions ==
    {[esModuleInterop |-> "undefined", sourceMap |-> "undefined",
      importHelpers |-> "undefined", experimentalDecorators |-> "undefined",
      emitDecoratorMetadata |-> "undefined", jsx |-> undefinedNum,
      jsxFactory |-> "undefined", jsxFragmentFactory |-> "undefined"],
     [esModuleInterop |-> "true", sourceMap |-> "true",
      importHelpers |-> "true", experimentalDecorators |-> "true",
      emitDecoratorMetadata |-> "true", jsx |-> JsxEmit.ReactJSXDev,
      jsxFactory |-> "h", jsxFragmentFactory |-> "Fragment"]}

\* Every combination of the options the derivations branch on.
HostConfigs ==
    {o @@ [target |-> t, module |-> m, strict |-> s, alwaysStrict |-> a,
           noImplicitUseStrict |-> n] :
        o \in OtherOptions, t \in ScriptTargets, m \in ModuleKinds,
        s \in TriState, a \in TriState, n \in TriState}

\* The configurations create() is followed through its whole life with.
LifecycleConfigs ==
    {c \in HostConfigs :
        /\ c.esModuleInterop = "undefined"
        /\ c.module \in {ModuleKind.CommonJS, ModuleKind.NodeNext}
        /\ c.strict = "undefined"
        /\ c.alwaysStrict = "false"
        /\ c.noImplicitUseStrict = "true"}

\* createOptions.swc: a dependency name, a loaded instance, or nothing.
SwcInputs ==
    {[kind |-> "string", name |-> "@swc/wasm"],
     [kind |-> "string", name |-> "my-swc"],
     [kind |-> "instance", name |-> ""],
     [kind |-> "absent", name |-> ""]}

\* Errors the swc instance may throw.
BackendErrors == {[message |-> "unknown field ignoreDynamic"], [message |-> "invalid target"]}

\* What a trial compile may do.
TrialResults == {[kind |-> "ok"]} \cup {[kind |-> "throw", error |-> e] : e \in BackendErrors}

\* What transformSync may do with a source file: give code with or without a
\* source map, or throw.
BackendResults ==
    {[kind |-> "ok", code |-> "js", map |-> "map"],
     [kind |-> "ok", code |-> "js", map |-> "undefined"],
     [kind |-> "throw", error |-> [message |-> "syntax error"]]}

\* File names given to transpile, as sequences of characters.
FileNames ==
    {<<"a", ".", "t", "s">>,
     <<"a", ".", "t", "s", "x">>,
     <<"a", ".", "j", "s">>,
     <<"a", ".", "j", "s", "x">>,
     <<"t", "s", "x">>,
     <<"a", ".", "t", "s", "x", ".", "t", "s">>}

\* The error of the resolver or of require for a dependency that does not load.
moduleNotFound(name) == <<"Cannot find module ", name>>

----------------------------------------------------------------------------
(* State before create() runs.                                              *)

Blank ==
    /\ swcDepName = "swc"
    /\ resolveLog = <<>>
    /\ swcTargetIndex = -1
    /\ probeLog = <<>>
    /\ nonTsxOptions = NoObject
    /\ tsxOptions = NoObject
    /\ validateLog = <<>>
    /\ transformCalls = 0
    /\ transpileCalls = 0
    /\ lastCall = NoObject
    /\ lastBackend = NoObject
    /\ lastResult = NoObject
    /\ error = <<>>

\* A caller is about to call create(createOptions).
Init ==
    /\ pc = "load"
    /\ swc \in SwcInputs
    /\ compilerOptions \in LifecycleConfigs
    /\ nodeModuleEmitKind \in NodeModuleEmitKinds
    /\ Blank

\* A caller (a test) is about to call createSwcOptions directly, with an instance.
InitOptions ==
    /\ pc = "options"
    /\ swc = [kind |-> "instance", name |-> ""]
    /\ compilerOptions \in HostConfigs
    /\ nodeModuleEmitKind \in NodeModuleEmitKinds
    /\ Blank

----------------------------------------------------------------------------
(* create: load the swc compiler.                                           *)

\* create failed with message msg.
Throw(msg) ==
    /\ pc' = "failed"
    /\ error' = msg

LoadNamed ==
    /\ swc.kind = "string"
    /\ swcDepName' = swc.name
    /\ \E resolved \in BOOLEAN, loaded \in BOOLEAN :
        /\ resolveLog' = <<[name |-> swc.name, ok |-> resolved]>>
        /\ IF resolved /\ loaded
           THEN pc' = "options" /\ error' = error
           ELSE Throw(moduleNotFound(swc.name))

LoadDefault ==
    /\ swc.kind = "absent"
    /\ \E core \in BOOLEAN, wasm \in BOOLEAN, loaded \in BOOLEAN :
        IF core
        THEN /\ swcDepName' = "@swc/core"
             /\ resolveLog' = <<[name |-> "@swc/core", ok |-> TRUE]>>
             /\ IF loaded
                THEN pc' = "options" /\ error' = error
                ELSE Throw(moduleNotFound("@swc/core"))
        ELSE /\ swcDepName' = "@swc/wasm"
             /\ resolveLog' = <<[name |-> "@swc/core", ok |-> FALSE],
                                [name |-> "@swc/wasm", ok |-> wasm]>>
             /\ IF ~wasm
                THEN Throw(unresolvableError)
                ELSE IF loaded
                     THEN pc' = "options" /\ error' = error
                     ELSE Throw(moduleNotFound("@swc/wasm"))

LoadInstance ==
    /\ swc.kind = "instance"
    /\ swcDepName' = swcDepName
    /\ resolveLog' = resolveLog
    /\ pc' = "options"
    /\ error' = error

LoadSwc ==
    /\ pc = "load"
    /\ (LoadNamed \/ LoadDefault \/ LoadInstance)
    /\ UNCHANGED <<swc, compilerOptions, nodeModuleEmitKind, swcTargetIndex, probeLog,
                   nonTsxOptions, tsxOptions, validateLog, transformCalls,
                   transpileCalls, lastCall, lastBackend, lastResult>>

----------------------------------------------------------------------------
(* createSwcOptions.                                                        *)

\* Entry: map the requested target and find its index in swcTargets.
EnterCreateSwcOptions ==
    /\ pc = "options"
    /\ swcTargetIndex' = indexOf(swcTargets, initialSwcTarget(compilerOptions.target))
    /\ pc' = "probe"
    /\ UNCHANGED <<swc, compilerOptions, nodeModuleEmitKind, swcDepName, resolveLog,
                   probeLog, nonTsxOptions, tsxOptions, validateLog, transformCalls,
                   transpileCalls, lastCall, lastBackend, lastResult, error>>

\* One iteration of the probe loop: a trial compile that asks for one level only.
ProbeStep ==
    /\ pc = "probe"
    /\ swcTargetIndex >= 0
    /\ \E ok \in BOOLEAN :
        /\ probeLog' = Append(probeLog, [index |-> swcTargetIndex,
                                         target |-> at(swcTargets, swcTargetIndex),
                                         ok |-> ok])
        /\ IF ok
           THEN pc' = "variantPlain" /\ swcTargetIndex' = swcTargetIndex
           ELSE pc' = pc /\ swcTargetIndex' = swcTargetIndex - 1
    /\ transformCalls' = transformCalls + 1
    /\ UNCHANGED <<swc, compilerOptions, nodeModuleEmitKind, swcDepName, resolveLog,
                   nonTsxOptions, tsxOptions, validateLog, transpileCalls, lastCall,
                   lastBackend, lastResult, error>>

\* The loop condition fails: every candidate was rejected.
ProbeExit ==
    /\ pc = "probe"
    /\ swcTargetIndex < 0
    /\ pc' = "variantPlain"
    /\ UNCHANGED <<swc, compilerOptions, nodeModuleEmitKind, swcDepName, resolveLog,
                   swcTargetIndex, probeLog, nonTsxOptions, tsxOptions, validateLog,
                   transformCalls, transpileCalls, lastCall, lastBackend, lastResult,
                   error>>

\* createVariant(isTsx): build the object, validate it with a trial compile.
createVariant(isTsx) ==
    /\ pc = IF isTsx THEN "variantTsx" ELSE "variantPlain"
    /\ LET swcTarget  == at(swcTargets, swcTargetIndex)
           swcOptions == swcOptionsOf(isTsx, compilerOptions, nodeModuleEmitKind, swcTarget)
       IN \E r \in TrialResults :
            /\ validateLog' = Append(validateLog, [options |-> swcOptions, result |-> r])
            /\ IF r.kind = "ok"
               THEN /\ pc' = IF isTsx THEN "created" ELSE "variantTsx"
                    /\ nonTsxOptions' = IF isTsx THEN nonTsxOptions ELSE swcOptions
                    /\ tsxOptions' = IF isTsx THEN swcOptions ELSE tsxOptions
                    /\ error' = error
               ELSE /\ Throw(validationError(swcDepName, r.error))
                    /\ UNCHANGED <<nonTsxOptions, tsxOptions>>
    /\ transformCalls' = transformCalls + 1
    /\ UNCHANGED <<swc, compilerOptions, nodeModuleEmitKind, swcDepName, resolveLog,
                   swcTargetIndex, probeLog, transpileCalls, lastCall, lastBackend,
                   lastResult>>

----------------------------------------------------------------------------
(* The transpiler create() returned.                                        *)

\* transpile that builds and validates the option object again on every call.
transpileRecomputing ==
    /\ pc = "created"
    /\ transpileCalls < MaxTranspileCalls
    /\ \E fileName \in FileNames, r \in BackendResults :
        LET isTsx == endsWith(fileName, DotTsx) \/ endsWith(fileName, DotJsx)
            swcOptions == swcOptionsOf(isTsx, compilerOptions, nodeModuleEmitKind,
                                       at(swcTargets, swcTargetIndex))
        IN
        /\ validateLog' = Append(validateLog, [options |-> swcOptions, result |-> [kind |-> "ok"]])
        /\ lastCall' = [fileName |-> fileName, input |-> "source",
                        options |-> withFilename(swcOptions, fileName)]
        /\ lastBackend' = r
        /\ lastResult' = transpileResult(r)
    /\ transformCalls' = transformCalls + 2
    /\ transpileCalls' = transpileCalls + 1
    /\ UNCHANGED <<pc, swc, compilerOptions, nodeModuleEmitKind, swcDepName, resolveLog,
                   swcTargetIndex, probeLog, nonTsxOptions, tsxOptions, error>>

transpile ==
    /\ pc = "created"
    /\ transpileCalls < MaxTranspileCalls
    /\ \E fileName \in FileNames, r \in BackendResults :
        LET swcOptions == selectOptions(fileName, nonTsxOptions, tsxOptions) IN
        /\ lastCall' = [fileName |-> fileName, input |-> "source",
                        options |-> withFilename(swcOptions, fileName)]
        /\ lastBackend' = r
        /\ lastResult' = transpileResult(r)
    /\ transformCalls' = transformCalls + 1
    /\ transpileCalls' = transpileCalls + 1
    /\ UNCHANGED <<pc, swc, compilerOptions, nodeModuleEmitKind, swcDepName, resolveLog,
                   swcTargetIndex, probeLog, nonTsxOptions, tsxOptions, validateLog,
                   error>>

----------------------------------------------------------------------------
(* Specifications.                                                          *)

createSwcOptions ==
    \/ EnterCreateSwcOptions
    \/ ProbeStep
    \/ ProbeExit
    \/ createVariant(FALSE)
    \/ createVariant(TRUE)

Next ==
    \/ LoadSwc
    \/ createSwcOptions
    \/ transpile

\* create() and the transpiler it returns.
Spec == Init /\ [][Next]_vars

\* createSwcOptions called on its own, over every host configuration.
SpecOptions == InitOptions /\ [][createSwcOptions]_vars

----------------------------------------------------------------------------
(* Properties.                                                              *)

\* The pieces of a text built by concatenation.
Contains(text, piece) == \E i \in 1..Len(text) : text[i] = piece

Range(seq) == {seq[i] : i \in 1..Len(seq)}

\* The probe loop has been left.
ProbeFinished ==
    \/ pc \in {"variantPlain", "variantTsx", "created"}
    \/ pc = "failed" /\ Len(validateLog) > 0

\* The position in the level table of the level the host asked for: the
\* table lists the mapped script targets in ascending order, an unmapped or
\* unset one counts as the oldest.
RequestedIndex ==
    LET t == compilerOptions.target IN
    IF t \in 0..9 THEN t ELSE IF t = 99 THEN 10 ELSE 0

TriedIndexes == {probeLog[i].index : i \in 1..Len(probeLog)}
AcceptedIndexes == {probeLog[i].index : i \in {j \in 1..Len(probeLog) : probeLog[j].ok}}

\* Every candidate from the requested level down to the oldest was rejected.
Exhausted == ProbeFinished /\ AcceptedIndexes = {}

\* Every option object createVariant has built so far.
BuiltOptions == {validateLog[i].options : i \in 1..Len(validateLog)}

\* C1: after the probe loop the selected level is the greatest entry of the
\* level table at or below the requested level whose level-only trial compile
\* succeeds, whatever subset of the levels the backend accepts; it never
\* exceeds the requested level and no level above it is tried.
C1_ProbeSelectsGreatestAccepted ==
    ProbeFinished =>
        /\ TriedIndexes \subseteq 0..RequestedIndex
        /\ swcTargetIndex <= RequestedIndex
        /\ swcTargetIndex \in AcceptedIndexes
        /\ \A i \in (swcTargetIndex + 1)..RequestedIndex :
                i \in TriedIndexes /\ i \notin AcceptedIndexes

\* The same statement for the backends that accept at least one candidate:
\* the one case C1 fails in is the exhaustion of C10.
ProbeSelectsGreatestUnlessExhausted ==
    (ProbeFinished /\ ~Exhausted) =>
        /\ TriedIndexes \subseteq 0..RequestedIndex
        /\ swcTargetIndex \in AcceptedIndexes
        /\ swcTargetIndex <= RequestedIndex
        /\ \A i \in (swcTargetIndex + 1)..RequestedIndex :
                i \in TriedIndexes /\ i \notin AcceptedIndexes

\* C2: the strictMode flag of the module section of both option objects is
\* false exactly when (alwaysStrict is explicitly false, or alwaysStrict is
\* unset and strict is not true) and noImplicitUseStrict is explicitly true.
C2_StrictModeRule ==
    LET co == compilerOptions
        suppressed ==
            /\ \/ co.alwaysStrict = "false"
               \/ co.alwaysStrict = "undefined" /\ co.strict \in {"false", "undefined"}
            /\ co.noImplicitUseStrict = "true"
    IN /\ \A o \in BuiltOptions : o.module.strictMode = ~suppressed
       /\ pc = "created" =>
            /\ nonTsxOptions.module.strictMode = ~suppressed
            /\ tsxOptions.module.strictMode = ~suppressed

\* Both objects exist and strict output is suppressed through the
\* "alwaysStrict unset, strict false" branch.
C2_Witness ==
    /\ pc = "created"
    /\ compilerOptions.alwaysStrict = "undefined"
    /\ compilerOptions.strict = "false"
    /\ compilerOptions.noImplicitUseStrict = "true"
    /\ ~nonTsxOptions.module.strictMode
    /\ ~tsxOptions.module.strictMode

\* C3: the module type of both option objects is commonjs for CommonJS, amd
\* for AMD, umd for UMD, commonjs for Node16/NodeNext with selector nodecjs
\* and es6 for Node16/NodeNext with selector nodeesm or unset; it is a
\* function of the module kind and the selector alone (every other module
\* kind gives es6).
C3_ModuleKindTable ==
    LET m == compilerOptions.module
        expected ==
            CASE m = 1 -> "commonjs"
              [] m = 2 -> "amd"
              [] m = 3 -> "umd"
              [] m \in {100, 199} /\ nodeModuleEmitKind = "nodecjs" -> "commonjs"
              [] m \in {100, 199} /\ nodeModuleEmitKind \in {"nodeesm", "undefined"} -> "es6"
              [] OTHER -> "es6"
    IN /\ \A o \in BuiltOptions : o.module.type = expected
       /\ pc = "created" =>
            /\ nonTsxOptions.module.type = expected
            /\ tsxOptions.module.type = expected

\* A host-native module kind with the selector unset gives the ES module form.
C3_Witness ==
    /\ pc = "created"
    /\ compilerOptions.module = ModuleKind.NodeNext
    /\ nodeModuleEmitKind = "undefined"
    /\ nonTsxOptions.module.type = "es6"
    /\ tsxOptions.module.type = "es6"

\* C4: the ignoreDynamic flag of both option objects is set exactly when the
\* module kind is Node16 or NodeNext and the selector is nodecjs; with any
\* other module kind, an explicit CommonJS included, it is not set whatever
\* the selector.
C4_IgnoreDynamicOnlyForNodeCjs ==
    LET m == compilerOptions.module
        passThrough == m \in {100, 199} /\ nodeModuleEmitKind = "nodecjs"
    IN \A o \in BuiltOptions : o.module.ignoreDynamic = passThrough

\* The trial compiles and transpile calls account for every backend call.
CallsAccounted == transformCalls = Len(probeLog) + Len(validateLog) + transpileCalls

\* Setup has run to its end: a backend is loaded, the probe loop is left, both
\* objects are built and validated.
SetupComplete ==
    /\ pc = "created"
    /\ swc.kind # "instance" => resolveLog # <<>> /\ resolveLog[Len(resolveLog)].ok
    /\ ProbeFinished
    /\ Len(validateLog) = 2
    /\ nonTsxOptions # NoObject
    /\ tsxOptions # NoObject
    /\ nonTsxOptions # tsxOptions

\* C5: setup (resolution, probing, translation, validation) is complete before
\* any transpile call; it produces exactly two option objects; a transpile
\* call adds exactly one backend call and no probe or validation compile, and
\* leaves the two cached objects, which hold no filename, as setup left them.
C5_SetupOnceNoRecompute ==
    /\ [](transpileCalls > 0 => SetupComplete)
    /\ [](pc = "created" => SetupComplete /\ CallsAccounted)
    /\ [][pc = "created" =>
            /\ pc' = "created"
            /\ probeLog' = probeLog
            /\ validateLog' = validateLog
            /\ resolveLog' = resolveLog
            /\ nonTsxOptions' = nonTsxOptions
            /\ tsxOptions' = tsxOptions
            /\ "filename" \notin DOMAIN nonTsxOptions'
            /\ "filename" \notin DOMAIN tsxOptions'
            /\ transpileCalls' = transpileCalls + 1
            /\ transformCalls' = transformCalls + 1]_vars

\* A second transpile call has been made on a transpiler whose setup probed
\* more than one level.
C5_Witness ==
    /\ SetupComplete
    /\ transpileCalls = 2
    /\ Len(probeLog) > 1
    /\ transformCalls = Len(probeLog) + 4

\* A file name ends in one of the two markup extensions.
HasMarkupSuffix(f) ==
    \E k \in 1..Len(f) :
        /\ Len(f) - k + 1 = 4
        /\ f[k] = "."
        /\ f[k + 1] \in {"t", "j"}
        /\ f[k + 2] = "s"
        /\ f[k + 3] = "x"

\* C6: the backend receives the markup object (tsx parsing on) merged with
\* the literal fileName when fileName ends in .tsx or .jsx, and the plain
\* object (tsx parsing off) merged with the literal fileName otherwise.
C6_DispatchBySuffix ==
    lastCall # NoObject =>
        LET f == lastCall.fileName
            cached == IF HasMarkupSuffix(f) THEN tsxOptions ELSE nonTsxOptions
        IN /\ lastCall.options.filename = f
           /\ lastCall.options.jsc.parser.tsx = HasMarkupSuffix(f)
           /\ DOMAIN lastCall.options = DOMAIN cached \cup {"filename"}
           /\ \A k \in DOMAIN cached : lastCall.options[k] = cached[k]

\* a.jsx went to the markup object after an earlier call.
C6_Witness ==
    /\ transpileCalls = 2
    /\ lastCall # NoObject
    /\ lastCall.fileName = <<"a", ".", "j", "s", "x">>
    /\ lastCall.options.jsc.parser.tsx
    /\ lastCall.options.filename = <<"a", ".", "j", "s", "x">>

\* C7: with no swc given, @swc/core is resolved first and @swc/wasm only after
\* @swc/core failed; the first that loads is the one used; when neither
\* resolves create fails with an error naming both, no trial compile is made
\* and no transpiler is returned.
C7_DefaultResolution ==
    (swc.kind = "absent" /\ pc # "load") =>
        /\ Len(resolveLog) \in {1, 2}
        /\ resolveLog[1].name = "@swc/core"
        /\ Len(resolveLog) = 2 <=> ~resolveLog[1].ok
        /\ Len(resolveLog) = 2 => resolveLog[2].name = "@swc/wasm"
        /\ pc # "failed" \/ transformCalls > 0 =>
                /\ resolveLog[Len(resolveLog)].ok
                /\ swcDepName = resolveLog[Len(resolveLog)].name
        /\ (\A i \in 1..Len(resolveLog) : ~resolveLog[i].ok) =>
                /\ pc = "failed"
                /\ Contains(error, "@swc/core")
                /\ Contains(error, "@swc/wasm")
                /\ transformCalls = 0
                /\ probeLog = <<>>
                /\ validateLog = <<>>
                /\ nonTsxOptions = NoObject
                /\ tsxOptions = NoObject
                /\ transpileCalls = 0

\* Neither dependency resolved.
C7_Witness ==
    /\ swc.kind = "absent"
    /\ pc = "failed"
    /\ Len(resolveLog) = 2
    /\ ~resolveLog[1].ok
    /\ ~resolveLog[2].ok
    /\ error # <<>>

\* The fallback was used after the primary failed to resolve.
C7_WitnessFallback ==
    /\ swc.kind = "absent"
    /\ pc = "created"
    /\ swcDepName = "@swc/wasm"

\* The name of the dependency that was resolved; a given instance goes by "swc".
ResolvedName ==
    CASE swc.kind = "string" -> swc.name
      [] swc.kind = "absent" -> resolveLog[Len(resolveLog)].name
      [] OTHER -> "swc"

C9_TransformFailureAllOrNothing ==
    (lastBackend # NoObject /\ lastBackend.kind = "throw") =>
        /\ lastResult = [kind |-> "throw", error |-> lastBackend.error]
        /\ DOMAIN lastResult = {"kind", "error"}
        /\ CallsAccounted
        /\ pc = "created"
        /\ nonTsxOptions = validateLog[1].options
        /\ tsxOptions = validateLog[2].options
        /\ transpileCalls < MaxTranspileCalls => ENABLED transpile

\* The backend threw in the first call and another call may follow.
C9_Witness ==
    /\ lastBackend # NoObject
    /\ lastBackend.kind = "throw"
    /\ lastResult.kind = "throw"
    /\ transpileCalls = 1

\* C10: when the backend rejects every candidate down to the oldest level,
\* create fails: no option object is built or validated with an undefined
\* level, and whenever create has succeeded the target of both option objects
\* is an entry of the level table.
C10_ExhaustionFailsConstruction ==
    /\ Exhausted => validateLog = <<>> /\ pc # "created"
    /\ pc = "created" =>
            /\ nonTsxOptions.jsc.target \in Range(swcTargets)
            /\ tsxOptions.jsc.target \in Range(swcTargets)

\* What the code does instead: create succeeds with an undefined target in
\* both option objects.
CreatedWithUndefinedTarget ==
    /\ pc = "created"
    /\ Exhausted
    /\ nonTsxOptions.jsc.target = "undefined"
    /\ tsxOptions.jsc.target = "undefined"

====
